---- MODULE Spec2Model ----
(***************************************************************************)
(* Cohen's d for two independent samples (function cohend of the effect-   *)
(* size notebook), executed line by line.                                  *)
(*                                                                         *)
(* Arithmetic is exact.  A float produced before the square root is a      *)
(* fraction n/d in lowest terms with d >= 0; d = 0 encodes the IEEE        *)
(* specials the division of the numeric library produces: 1/0 = +inf,      *)
(* -1/0 = -inf, 0/0 = nan.  The square root s and the quotient returned    *)
(* are kept as a sign together with their square, so that no irrational    *)
(* value is ever approximated.  Rounding of binary floating point and      *)
(* signed zeros are outside the model.                                     *)
(***************************************************************************)
EXTENDS Integers, Sequences, FiniteSets, TLC

VARIABLES pc, d1, d2, n1, n2, s1, s2, s, u1, u2, ret, log, other

\* The save-and-load notebook: the position in the running example, the
\* example run (json or yaml), the script's variables, the files of the
\* working directory, the calls made on the loaded model so far, and what the
\* previous run trained.
VARIABLES kpc, fmt, model, scores, model_text, loaded_text, loaded_model,
          score, fs, events, last_run

kerasVars ==
  <<kpc, fmt, model, scores, model_text, loaded_text, loaded_model, score, fs,
    events, last_run>>

\* The matrix-decomposition notebook: the position in the LU example and its
\* variables.
VARIABLES lpc, A, P, L, U, B

luVars == <<lpc, A, P, L, U, B>>

\* State of the other notebooks, which cohend never touches.
elsewhere == <<kerasVars, luVars>>

vars == <<pc, d1, d2, n1, n2, s1, s2, s, u1, u2, ret, log, other, elsewhere>>

locals == <<n1, n2, s1, s2, s, u1, u2>>

\* Bounds of the explored inputs.
MaxLen == 3
MaxVal == 1
MaxK == 3
MaxShift == 2
MaxW == 2

Vals == 0..MaxVal

RECURSIVE SeqsUpTo(_)
SeqsUpTo(k) ==
  IF k = 0 THEN {<<>>}
  ELSE LET prev == SeqsUpTo(k - 1) IN
       prev \cup {Append(q, v) : q \in {p \in prev : Len(p) = k - 1}, v \in Vals}

Samples == SeqsUpTo(MaxLen)

\* Samples a caller passes when it calls the function repeatedly.
HistInputs == {<<>>, <<5>>, <<1, 2>>, <<5, 5, 5>>, <<1, 2, 4>>}

\* The tutorial's scenario in small: [50,60,70] has mean 60 and [50,50,50,70]
\* mean 55, both with standard deviation 10; the others are reorderings and
\* samples that agree in count, mean and variance.
ScenarioInputs ==
  {<<50, 60, 70>>, <<50, 50, 50, 70>>, <<70, 50, 60>>, <<1, 2>>, <<2, 1>>,
   <<0, 2, 2, 2>>, <<1, 1, 1, 3>>, <<2, 0, 2, 2>>}

----------------------------------------------------------------------------
\* Exact arithmetic on fractions with IEEE specials.

Abs(x) == IF x < 0 THEN 0 - x ELSE x

Sign(x) == IF x < 0 THEN 0 - 1 ELSE IF x > 0 THEN 1 ELSE 0

RECURSIVE GCD(_, _)
GCD(a, b) == IF b = 0 THEN a ELSE GCD(b, a % b)

Rat(n, d) ==
  IF d = 0 THEN [n |-> Sign(n), d |-> 0]
  ELSE LET g == GCD(Abs(n), Abs(d)) IN
       [n |-> (Sign(d) * n) \div g, d |-> Abs(d) \div g]

FromInt(i) == [n |-> i, d |-> 1]

NaN == [n |-> 0, d |-> 0]

IsNaN(x) == x.n = 0 /\ x.d = 0

IsFinite(x) == x.d > 0

RNeg(x) == [n |-> 0 - x.n, d |-> x.d]

RAdd(x, y) ==
  IF x.d = 0 /\ y.d = 0
  THEN (IF x.n = y.n THEN x ELSE NaN)
  ELSE Rat(x.n * y.d + y.n * x.d, x.d * y.d)

RSub(x, y) == RAdd(x, RNeg(y))

RMul(x, y) == Rat(x.n * y.n, x.d * y.d)

RDiv(x, y) ==
  IF y.n < 0 THEN Rat(0 - (x.n * y.d), x.d * (0 - y.n))
  ELSE Rat(x.n * y.d, x.d * y.n)

RECURSIVE Sum(_)
Sum(q) == IF q = <<>> THEN 0 ELSE Head(q) + Sum(Tail(q))

RECURSIVE RSum(_)
RSum(q) == IF q = <<>> THEN FromInt(0) ELSE RAdd(Head(q), RSum(Tail(q)))

RECURSIVE SqDev(_, _)
SqDev(q, m) ==
  IF q = <<>> THEN <<>>
  ELSE LET x == RSub(FromInt(Head(q)), m) IN <<RMul(x, x)>> \o SqDev(Tail(q), m)

Max(a, b) == IF a > b THEN a ELSE b

----------------------------------------------------------------------------
\* The library routines cohend calls.

\* The mean that leaves the first observation out of the sum.
meanSkipFirst(d) ==
  RDiv(FromInt(IF d = <<>> THEN 0 ELSE Sum(Tail(d))), FromInt(Len(d)))

\* numpy.mean: the sum over the count; the mean of no observation is 0/0.
mean(d) == RDiv(FromInt(Sum(d)), FromInt(Len(d)))

\* The second moment about 0: the mean is not subtracted.
varRaw(d, ddof) ==
  RDiv(RSum(SqDev(d, FromInt(0))), FromInt(Max(Len(d) - ddof, 0)))

\* The variance with the divisor n (ddof ignored).
varPopulation(d, ddof) ==
  RDiv(RSum(SqDev(d, mean(d))), FromInt(Len(d)))

\* numpy.var with ddof as the code passes it: the sum of the squared deviations
\* from the mean over max(n - ddof, 0).
var(d, ddof) ==
  RDiv(RSum(SqDev(d, mean(d))), FromInt(Max(Len(d) - ddof, 0)))

\* Values after the square root: sg * sqrt(sq).
SZero == [sg |-> 0, sq |-> FromInt(0)]

SNaN == [sg |-> 0, sq |-> NaN]

SNeg(v) == [sg |-> 0 - v.sg, sq |-> v.sq]

SIsNaN(v) == IsNaN(v.sq)

SIsFinite(v) == IsFinite(v.sq)

\* math.sqrt of a value that is not negative (a negative one raises).
sqrt(x) == [sg |-> IF x.n = 0 THEN 0 ELSE 1, sq |-> x]

\* The float division r / v of the numeric library: x/0 is an infinity of the
\* sign of x, 0/0 and anything with nan is nan; none of them raises.
SDiv(r, v) ==
  LET q == RDiv(RMul(r, r), v.sq) IN
  [sg |-> IF q.n = 0 THEN 0 ELSE Sign(r.n) * (IF v.sg < 0 THEN 0 - 1 ELSE 1),
   sq |-> q]

----------------------------------------------------------------------------
\* Outcomes of a call.

Returned(v) == [kind |-> "return", exc |-> "none", val |-> v]

Raised(e) == [kind |-> "raise", exc |-> e, val |-> SNaN]

NoResult == [kind |-> "unset", exc |-> "none", val |-> SNaN]

None == [n |-> 0, d |-> 0, unbound |-> TRUE]

\* No second call in progress.
NoFrame ==
  [pc |-> "none", d1 |-> <<>>, d2 |-> <<>>, n1 |-> None, n2 |-> None,
   s1 |-> None, s2 |-> None, s |-> None, u1 |-> None, u2 |-> None,
   ret |-> NoResult, mixed |-> FALSE]

NoLog ==
  [d1 |-> <<>>, d2 |-> <<>>, ret |-> NoResult, between |-> FALSE, again |-> NoResult]

----------------------------------------------------------------------------
\* The expressions of cohend, line by line.

\* Variants of the pooled variance with a slip in it: the degrees of freedom
\* not subtracted in the divisor, n1 - 1 used for both weights, a minus for
\* the plus.
PooledVarNoDof(m1, m2, v1, v2) ==
  RDiv(RAdd(RMul(FromInt(m1 - 1), v1), RMul(FromInt(m2 - 1), v2)),
       FromInt(m1 + m2))

PooledVarSameWeight(m1, m2, v1, v2) ==
  RDiv(RAdd(RMul(FromInt(m1 - 1), v1), RMul(FromInt(m1 - 1), v2)),
       FromInt(m1 + m2 - 2))

PooledVarMinus(m1, m2, v1, v2) ==
  RDiv(RSub(RMul(FromInt(m1 - 1), v1), RMul(FromInt(m2 - 1), v2)),
       FromInt(m1 + m2 - 2))

\* ((n1 - 1) * s1 + (n2 - 1) * s2) / (n1 + n2 - 2)
PooledVar(m1, m2, v1, v2) ==
  RDiv(RAdd(RMul(FromInt(m1 - 1), v1), RMul(FromInt(m2 - 1), v2)),
       FromInt(m1 + m2 - 2))

\* The pooled variance used without its square root.
PooledStdNoSqrt(m1, m2, v1, v2) ==
  LET pv == PooledVar(m1, m2, v1, v2) IN
  [sg |-> IF pv.n = 0 THEN 0 ELSE 1, sq |-> RMul(pv, pv)]

\* sqrt(...) of the pooled variance
PooledStd(m1, m2, v1, v2) == sqrt(PooledVar(m1, m2, v1, v2))

\* Variants of the last line with a slip in it.
EffectSizeSwapped(a, b, sd) == SDiv(RSub(b, a), sd)

EffectSizeSum(a, b, sd) == SDiv(RAdd(a, b), sd)

EffectSizeAbs(a, b, sd) ==
  LET v == SDiv(RSub(a, b), sd) IN [sg |-> Abs(v.sg), sq |-> v.sq]

EffectSizeZeroGuard(a, b, sd) ==
  IF sd.sq.n = 0 /\ sd.sq.d > 0 THEN SZero ELSE SDiv(RSub(a, b), sd)

EffectSizeEqualMeans(a, b, sd) ==
  IF a = b THEN SZero ELSE SDiv(RSub(a, b), sd)

\* (u1 - u2) / s
EffectSize(a, b, sd) == SDiv(RSub(a, b), sd)

\* The whole function as one expression of its two arguments.
Cohend(a, b) ==
  LET pv == PooledVar(Len(a), Len(b), var(a, 1), var(b, 1)) IN
  IF pv.n < 0 THEN Raised("ValueError")
  ELSE Returned(EffectSize(mean(a), mean(b),
                           PooledStd(Len(a), Len(b), var(a, 1), var(b, 1))))

----------------------------------------------------------------------------
\* The save-and-load examples: values.

\* The three Dense layers the examples add.
Arch ==
  <<[units |-> 12, activation |-> "relu"],
    [units |-> 8, activation |-> "relu"],
    [units |-> 1, activation |-> "sigmoid"]>>

\* Weights as the initializer leaves them, before any training.
InitWeights == 0

\* Weights a run of fit may end with.
TrainedWeights == 1..MaxW

NoModel == [arch |-> <<>>, weights |-> InitWeights, compiled |-> "none", built |-> FALSE]

NoScore == [kind |-> "unset"]

Absent == [kind |-> "absent"]

NoPrev == [fmt |-> "none", weights |-> InitWeights]

Files == {"model.json", "model.yaml", "model.h5"}

\* model.json for the JSON example, model.yaml for the YAML example.
ArchFile(f) == IF f = "json" THEN "model.json" ELSE "model.yaml"

\* to_json / to_yaml: the architecture as text; neither the weights nor the
\* optimizer are part of it.
ToText(f, m) == [kind |-> "text", format |-> f, class |-> "Sequential", config |-> m.arch]

\* model_from_json / model_from_yaml: a new model of the architecture in the
\* text, with freshly initialized weights, not compiled.
FromText(f, x) ==
  [arch |-> IF x.kind = "text" /\ x.format = f THEN x.config ELSE <<>>,
   weights |-> InitWeights, compiled |-> "none", built |-> TRUE]

\* What save_weights writes for model m.
SavedWeights(m) == [kind |-> "weights", w |-> m.weights]

\* evaluate: loss and accuracy on X, Y are decided by the architecture and
\* the weights; a model that was not compiled cannot be evaluated.
Evaluate(m) ==
  IF m.compiled = "none" THEN [kind |-> "RuntimeError"]
  ELSE [kind |-> "scores", acc |-> <<m.arch, m.weights>>]

\* The calls of one example after training, in the order of the script.
StepOrder ==
  <<"architecture written", "weights saved", "architecture read",
    "model rebuilt", "weights loaded", "loaded model compiled",
    "loaded model evaluated">>

\* Nothing has run yet and the working directory holds no model file.
KerasIdle ==
  /\ kpc = "idle"
  /\ fmt = "none"
  /\ model = NoModel /\ loaded_model = NoModel
  /\ scores = NoScore /\ score = NoScore
  /\ model_text = Absent /\ loaded_text = Absent
  /\ fs = [f \in Files |-> Absent]
  /\ events = <<>>
  /\ last_run = NoPrev

----------------------------------------------------------------------------
\* The LU example: matrices of fractions and scipy.linalg.lu.

\* Rows the example matrix is made of, and rows that force a zero pivot.
LURows == {<<1, 2, 3>>, <<4, 5, 6>>, <<7, 8, 9>>, <<0, 1, 1>>, <<0, 0, 2>>}

\* 3x3 matrices of these rows; [[1,2,3],[4,5,6],[7,8,9]] is one of them.
Matrices == {<<r1, r2, r3>> : r1 \in LURows, r2 \in LURows, r3 \in LURows}

NoMatrix == <<>>

ToRatMatrix(m) == [i \in 1..Len(m) |-> [j \in 1..Len(m[i]) |-> FromInt(m[i][j])]]

\* |x| < |y| for finite fractions
AbsLess(x, y) == Abs(x.n) * y.d < Abs(y.n) * x.d

SwapRows(m, i, j) ==
  [r \in 1..Len(m) |-> IF r = i THEN m[j] ELSE IF r = j THEN m[i] ELSE m[r]]

\* Partial pivoting: the first row at or below k whose entry in column k is
\* largest in absolute value.
PivotRow(a, k) ==
  CHOOSE p \in k..Len(a) :
    /\ \A i \in k..Len(a) : ~AbsLess(a[p][k], a[i][k])
    /\ \A i \in k..(p - 1) : AbsLess(a[i][k], a[p][k])

\* Column k eliminated below the diagonal; the multipliers are kept in place
\* of the zeros. A zero pivot leaves the column as it is.
Eliminate(a, k) ==
  [i \in 1..Len(a) |->
     IF i <= k \/ a[k][k].n = 0 THEN a[i]
     ELSE LET f == RDiv(a[i][k], a[k][k]) IN
          [j \in 1..Len(a) |->
             IF j < k THEN a[i][j]
             ELSE IF j = k THEN f
             ELSE RSub(a[i][j], RMul(f, a[k][j]))]]

RECURSIVE Factorize(_, _, _)
Factorize(a, perm, k) ==
  IF k > Len(a) THEN [a |-> a, perm |-> perm]
  ELSE LET p == PivotRow(a, k) IN
       Factorize(Eliminate(SwapRows(a, k, p), k), SwapRows(perm, k, p), k + 1)

\* The permutation matrix with the 1 of column i in row perm[i], transposed.
PermMatrixTransposed(perm) ==
  [i \in 1..Len(perm) |->
     [j \in 1..Len(perm) |-> FromInt(IF perm[i] = j THEN 1 ELSE 0)]]

\* The permutation matrix lu returns: row perm[i] of A is row i of L.U, so
\* the 1 of column i is in row perm[i].
PermMatrix(perm) ==
  [i \in 1..Len(perm) |->
     [j \in 1..Len(perm) |-> FromInt(IF perm[j] = i THEN 1 ELSE 0)]]

\* P, L, U = lu(A)
lu(m) ==
  LET n == Len(m)
      f == Factorize(ToRatMatrix(m), [i \in 1..n |-> i], 1)
  IN [P |-> PermMatrix(f.perm),
      L |-> [i \in 1..n |-> [j \in 1..n |->
               IF j < i THEN f.a[i][j] ELSE FromInt(IF j = i THEN 1 ELSE 0)]],
      U |-> [i \in 1..n |-> [j \in 1..n |->
               IF j >= i THEN f.a[i][j] ELSE FromInt(0)]]]

\* X.dot(Y)
Dot(X, Y) ==
  [i \in 1..Len(X) |-> [j \in 1..Len(Y[1]) |->
     RSum([k \in 1..Len(Y) |-> RMul(X[i][k], Y[k][j])])]]

\* The example has not run.
LUIdle ==
  /\ lpc = "idle"
  /\ A = NoMatrix /\ P = NoMatrix /\ L = NoMatrix /\ U = NoMatrix
  /\ B = NoMatrix

----------------------------------------------------------------------------
\* One call, statement by statement.

TypeOK ==
  /\ pc \in {"idle", "L251", "L253", "L255", "L257", "L259", "done"}
  /\ d1 \in Seq(Int) /\ d2 \in Seq(Int)
  /\ ret.kind \in {"unset", "return", "raise"}

\* The state right after cohend(d1, d2) is entered with any two samples.
Init ==
  /\ pc = "L251"
  /\ d1 \in Samples /\ d2 \in Samples
  /\ n1 = None /\ n2 = None /\ s1 = None /\ s2 = None
  /\ s = None /\ u1 = None /\ u2 = None
  /\ ret = NoResult
  /\ log = NoLog
  /\ other = NoFrame
  /\ KerasIdle
  /\ LUIdle

\* The same, the samples of the scenario included.
InitScen ==
  /\ pc = "L251"
  /\ d1 \in Samples \cup ScenarioInputs /\ d2 \in Samples \cup ScenarioInputs
  /\ n1 = None /\ n2 = None /\ s1 = None /\ s2 = None
  /\ s = None /\ u1 = None /\ u2 = None
  /\ ret = NoResult
  /\ log = NoLog
  /\ other = NoFrame
  /\ KerasIdle
  /\ LUIdle

\* A caller that has not called yet.
InitHist ==
  /\ pc = "idle"
  /\ d1 = <<>> /\ d2 = <<>>
  /\ n1 = None /\ n2 = None /\ s1 = None /\ s2 = None
  /\ s = None /\ u1 = None /\ u2 = None
  /\ ret = NoResult
  /\ log = NoLog
  /\ other = NoFrame
  /\ KerasIdle
  /\ LUIdle

\* d = cohend(data1, data2): the parameters are bound to the caller's samples;
\* the caller's d keeps its value until the call returns.
Call ==
  /\ pc \in {"idle", "done"}
  /\ \E a \in HistInputs, b \in HistInputs : d1' = a /\ d2' = b
  /\ pc' = "L251"
  /\ UNCHANGED <<locals, ret, log, other, elsewhere>>

\* n1, n2 = len(d1), len(d2)
Sizes ==
  /\ pc = "L251"
  /\ n1' = Len(d1) /\ n2' = Len(d2)
  /\ pc' = "L253"
  /\ UNCHANGED <<d1, d2, s1, s2, s, u1, u2, ret, log, other, elsewhere>>

\* s1, s2 = var(d1, ddof=1), var(d2, ddof=1)
Variances ==
  /\ pc = "L253"
  /\ s1' = var(d1, 1) /\ s2' = var(d2, 1)
  /\ pc' = "L255"
  /\ UNCHANGED <<d1, d2, n1, n2, s, u1, u2, ret, log, other, elsewhere>>

\* The call ends with outcome o: the frame is discarded, the caller gets o.
\* The observer remembers one call of its choice, then notes whether another
\* call came in between and what a later call with the same samples gave.
Finish(o) ==
  /\ pc' = "done"
  /\ ret' = o
  /\ n1' = None /\ n2' = None /\ s1' = None /\ s2' = None
  /\ s' = None /\ u1' = None /\ u2' = None
  /\ IF log = NoLog
     THEN \E keep \in BOOLEAN :
            log' = IF keep
                   THEN [d1 |-> d1, d2 |-> d2, ret |-> o,
                         between |-> FALSE, again |-> NoResult]
                   ELSE log
     ELSE IF log.d1 = d1 /\ log.d2 = d2
          THEN log' = [log EXCEPT !.again = o]
          ELSE log' = [log EXCEPT !.between = TRUE]
  /\ UNCHANGED <<d1, d2, other, elsewhere>>

\* s = sqrt(((n1 - 1) * s1 + (n2 - 1) * s2) / (n1 + n2 - 2))
Pooled ==
  /\ pc = "L255"
  /\ IF PooledVar(n1, n2, s1, s2).n < 0
     THEN Finish(Raised("ValueError"))
     ELSE /\ s' = PooledStd(n1, n2, s1, s2)
          /\ pc' = "L257"
          /\ UNCHANGED <<d1, d2, n1, n2, s1, s2, u1, u2, ret, log, other, elsewhere>>

\* The means taken after sorting the first sample in place.
MeansSorting ==
  /\ pc = "L257"
  /\ d1' = SortSeq(d1, LAMBDA x, y : x < y)
  /\ u1' = mean(d1) /\ u2' = mean(d2)
  /\ pc' = "L259"
  /\ UNCHANGED <<d2, n1, n2, s1, s2, s, ret, log, other, elsewhere>>

\* u1, u2 = mean(d1), mean(d2)
Means ==
  /\ pc = "L257"
  /\ u1' = mean(d1) /\ u2' = mean(d2)
  /\ pc' = "L259"
  /\ UNCHANGED <<d1, d2, n1, n2, s1, s2, s, ret, log, other, elsewhere>>

\* A result that stays nan once the caller's d holds a nan.
ReturnValueSticky ==
  IF ret.kind = "return" /\ SIsNaN(ret.val) THEN ret
  ELSE Returned(EffectSize(u1, u2, s))

\* the value of (u1 - u2) / s
ReturnValue == Returned(EffectSize(u1, u2, s))

\* return (u1 - u2) / s
Return ==
  /\ pc = "L259"
  /\ Finish(ReturnValue)

Next == Sizes \/ Variances \/ Pooled \/ Means \/ Return

Spec == Init /\ [][Next]_vars

\* Two calls in progress at once, each on its own samples and with its own
\* frame; the interpreter runs one of them at a time.
InitPar ==
  /\ pc = "L251"
  /\ d1 \in HistInputs /\ d2 \in HistInputs
  /\ n1 = None /\ n2 = None /\ s1 = None /\ s2 = None
  /\ s = None /\ u1 = None /\ u2 = None
  /\ ret = NoResult
  /\ log = NoLog
  /\ \E a \in HistInputs, b \in HistInputs :
       other = [NoFrame EXCEPT !.pc = "L251", !.d1 = a, !.d2 = b]
  /\ KerasIdle
  /\ LUIdle

\* The frame of the running call: its parameters, its locals and the variable
\* its caller assigns the result to.
Frame ==
  [pc |-> pc, d1 |-> d1, d2 |-> d2, n1 |-> n1, n2 |-> n2, s1 |-> s1,
   s2 |-> s2, s |-> s, u1 |-> u1, u2 |-> u2, ret |-> ret,
   mixed |-> other.mixed \/ pc \in {"L253", "L255", "L257", "L259"}]

\* What a resumed call finds if s were a global shared by all calls.
RestoredSharedS == [other EXCEPT !.s = s]

\* What a resumed call finds: every name of cohend is local to its frame.
Restored == other

\* The interpreter suspends the running call between two statements and
\* resumes the other one.
Switch ==
  /\ other.pc \notin {"none", "done"}
  /\ other' = Frame
  /\ pc' = Restored.pc /\ d1' = Restored.d1 /\ d2' = Restored.d2
  /\ n1' = Restored.n1 /\ n2' = Restored.n2
  /\ s1' = Restored.s1 /\ s2' = Restored.s2 /\ s' = Restored.s
  /\ u1' = Restored.u1 /\ u2' = Restored.u2
  /\ ret' = Restored.ret
  /\ UNCHANGED <<log, elsewhere>>

NextPar == Switch \/ Next

SpecPar == InitPar /\ [][NextPar]_vars

----------------------------------------------------------------------------
\* The save-and-load examples, statement by statement (line numbers of the
\* JSON example; the YAML example has the same statements).

cohendVars == <<pc, d1, d2, n1, n2, s1, s2, s, u1, u2, ret, log, other>>

notKeras == <<cohendVars, luVars>>

\* One of the two example cells is run; the variables and files of earlier
\* runs are still there.
StartRun ==
  /\ kpc \in {"idle", "ran"}
  /\ \E f \in {"json", "yaml"} : fmt' = f
  /\ last_run' = IF kpc = "ran" THEN [fmt |-> fmt, weights |-> model.weights] ELSE last_run
  /\ events' = <<>>
  /\ kpc' = "K91"
  /\ UNCHANGED <<model, scores, model_text, loaded_text, loaded_model, score, fs>>
  /\ UNCHANGED notKeras

\* model = Sequential(); model.add(...) x 3; model.compile(optimizer='adam')
BuildModel ==
  /\ kpc = "K91"
  /\ model' = [arch |-> Arch, weights |-> InitWeights, compiled |-> "adam", built |-> TRUE]
  /\ kpc' = "K98"
  /\ UNCHANGED <<fmt, scores, model_text, loaded_text, loaded_model, score, fs,
                 events, last_run>>
  /\ UNCHANGED notKeras

\* model.fit(X, Y, epochs=150, batch_size=10, verbose=0)
Fit ==
  /\ kpc = "K98"
  /\ \E w \in TrainedWeights : model' = [model EXCEPT !.weights = w]
  /\ kpc' = "K100"
  /\ UNCHANGED <<fmt, scores, model_text, loaded_text, loaded_model, score, fs,
                 events, last_run>>
  /\ UNCHANGED notKeras

\* scores = model.evaluate(X, Y, verbose=0); print(...)
EvaluateModel ==
  /\ kpc = "K100"
  /\ scores' = Evaluate(model)
  /\ kpc' = "K104"
  /\ UNCHANGED <<fmt, model, model_text, loaded_text, loaded_model, score, fs,
                 events, last_run>>
  /\ UNCHANGED notKeras

\* model_json = model.to_json()
Serialize ==
  /\ kpc = "K104"
  /\ model_text' = ToText(fmt, model)
  /\ kpc' = "K105"
  /\ UNCHANGED <<fmt, model, scores, loaded_text, loaded_model, score, fs,
                 events, last_run>>
  /\ UNCHANGED notKeras

\* with open("model.json", "w") as json_file: json_file.write(model_json)
WriteArch ==
  /\ kpc = "K105"
  /\ fs' = [fs EXCEPT ![ArchFile(fmt)] = model_text]
  /\ events' = Append(events, "architecture written")
  /\ kpc' = "K108"
  /\ UNCHANGED <<fmt, model, scores, model_text, loaded_text, loaded_model,
                 score, last_run>>
  /\ UNCHANGED notKeras

\* The weights written only when model.h5 does not exist yet.
SaveWeightsNoOverwrite ==
  /\ kpc = "K108"
  /\ fs' = IF fs["model.h5"] = Absent
           THEN [fs EXCEPT !["model.h5"] = SavedWeights(model)]
           ELSE fs
  /\ events' = Append(events, "weights saved")
  /\ kpc' = "K114"
  /\ UNCHANGED <<fmt, model, scores, model_text, loaded_text, loaded_model,
                 score, last_run>>
  /\ UNCHANGED notKeras

\* model.save_weights("model.h5")
SaveWeights ==
  /\ kpc = "K108"
  /\ fs' = [fs EXCEPT !["model.h5"] = SavedWeights(model)]
  /\ events' = Append(events, "weights saved")
  /\ kpc' = "K114"
  /\ UNCHANGED <<fmt, model, scores, model_text, loaded_text, loaded_model,
                 score, last_run>>
  /\ UNCHANGED notKeras

\* json_file = open('model.json', 'r'); loaded_model_json = json_file.read();
\* json_file.close()
ReadArch ==
  /\ kpc = "K114"
  /\ loaded_text' = fs[ArchFile(fmt)]
  /\ events' = Append(events, "architecture read")
  /\ kpc' = "K117"
  /\ UNCHANGED <<fmt, model, scores, model_text, loaded_model, score, fs, last_run>>
  /\ UNCHANGED notKeras

\* loaded_model = model_from_json(loaded_model_json)
Rebuild ==
  /\ kpc = "K117"
  /\ loaded_model' = FromText(fmt, loaded_text)
  /\ events' = Append(events, "model rebuilt")
  /\ kpc' = "K119"
  /\ UNCHANGED <<fmt, model, scores, model_text, loaded_text, score, fs, last_run>>
  /\ UNCHANGED notKeras

\* The statement left out: the rebuilt model keeps its initial weights.
LoadWeightsOmitted ==
  /\ kpc = "K119"
  /\ events' = Append(events, "weights loaded")
  /\ kpc' = "K123"
  /\ UNCHANGED <<fmt, model, scores, model_text, loaded_text, loaded_model,
                 score, fs, last_run>>
  /\ UNCHANGED notKeras

\* loaded_model.load_weights("model.h5")
LoadWeights ==
  /\ kpc = "K119"
  /\ loaded_model' = [loaded_model EXCEPT !.weights = fs["model.h5"].w]
  /\ events' = Append(events, "weights loaded")
  /\ kpc' = "K123"
  /\ UNCHANGED <<fmt, model, scores, model_text, loaded_text, score, fs, last_run>>
  /\ UNCHANGED notKeras

\* The statement left out: the loaded model goes on uncompiled.
CompileLoadedOmitted ==
  /\ kpc = "K123"
  /\ kpc' = "K124"
  /\ UNCHANGED <<fmt, model, scores, model_text, loaded_text, loaded_model,
                 score, fs, events, last_run>>
  /\ UNCHANGED notKeras

\* loaded_model.compile(loss='binary_crossentropy', optimizer='rmsprop', ...)
CompileLoaded ==
  /\ kpc = "K123"
  /\ loaded_model' = [loaded_model EXCEPT !.compiled = "rmsprop"]
  /\ events' = Append(events, "loaded model compiled")
  /\ kpc' = "K124"
  /\ UNCHANGED <<fmt, model, scores, model_text, loaded_text, score, fs, last_run>>
  /\ UNCHANGED notKeras

\* score = loaded_model.evaluate(X, Y, verbose=0); print(...)
EvaluateLoaded ==
  /\ kpc = "K124"
  /\ score' = Evaluate(loaded_model)
  /\ events' = Append(events, "loaded model evaluated")
  /\ kpc' = "ran"
  /\ UNCHANGED <<fmt, model, scores, model_text, loaded_text, loaded_model,
                 fs, last_run>>
  /\ UNCHANGED notKeras

NextKeras ==
  \/ StartRun \/ BuildModel \/ Fit \/ EvaluateModel \/ Serialize \/ WriteArch
  \/ SaveWeights \/ ReadArch \/ Rebuild \/ LoadWeights \/ CompileLoaded
  \/ EvaluateLoaded

SpecKeras == InitHist /\ [][NextKeras]_vars

----------------------------------------------------------------------------
\* The LU example, statement by statement.

notLU == <<cohendVars, kerasVars>>

\* A = array([[1, 2, 3], [4, 5, 6], [7, 8, 9]])
DefineMatrix ==
  /\ lpc = "idle"
  /\ A' \in Matrices
  /\ lpc' = "M155"
  /\ UNCHANGED <<P, L, U, B>>
  /\ UNCHANGED notLU

\* P, L, U = lu(A)
Decompose ==
  /\ lpc = "M155"
  /\ P' = lu(A).P /\ L' = lu(A).L /\ U' = lu(A).U
  /\ lpc' = "M160"
  /\ UNCHANGED <<A, B>>
  /\ UNCHANGED notLU

\* B = P.dot(L).dot(U)
Reconstruct ==
  /\ lpc = "M160"
  /\ B' = Dot(Dot(P, L), U)
  /\ lpc' = "shown"
  /\ UNCHANGED <<A, P, L, U>>
  /\ UNCHANGED notLU

NextLU == DefineMatrix \/ Decompose \/ Reconstruct

SpecLU == InitHist /\ [][NextLU]_vars

SpecScen == InitScen /\ [][Next]_vars

NextHist == Call \/ Next

SpecHist == InitHist /\ [][NextHist]_vars

----------------------------------------------------------------------------
\* Textbook quantities, in integers, that the claims are stated with.

RECURSIVE SumSq(_)
SumSq(q) == IF q = <<>> THEN 0 ELSE Head(q) * Head(q) + SumSq(Tail(q))

\* n times the sum of the squared deviations from the mean: n*Sum(x^2) - Sum(x)^2.
NSS(q) == Len(q) * SumSq(q) - Sum(q) * Sum(q)

\* n1*n2*(n1 + n2 - 2) times the pooled variance of a and b.
PooledNum(a, b) == Len(b) * NSS(a) + Len(a) * NSS(b)

\* n1*n2 times mean(a) - mean(b).
MeanDiffNum(a, b) == Sum(a) * Len(b) - Sum(b) * Len(a)

Constant(q) == \A i, j \in 1..Len(q) : q[i] = q[j]

Valid(a, b) == Len(a) >= 2 /\ Len(b) >= 2

Scale(k, q) == [i \in 1..Len(q) |-> k * q[i]]

----------------------------------------------------------------------------
\* C1: for two samples of at least 2 observations each whose pooled standard
\* deviation is not zero, the call returns d with d * s = mean(d1) - mean(d2):
\* d has the sign of mean(d1) - mean(d2) and d^2 times the pooled variance is
\* the square of the difference of the means.
C1_ReturnsMeanDiffOverPooledStd ==
  (pc = "done" /\ Valid(d1, d2) /\ PooledNum(d1, d2) # 0) =>
    /\ ret.kind = "return"
    /\ SIsFinite(ret.val)
    /\ ret.val.sg = Sign(MeanDiffNum(d1, d2))
    /\ ret.val.sq.n * Len(d1) * Len(d2) * PooledNum(d1, d2)
         = ret.val.sq.d * MeanDiffNum(d1, d2) * MeanDiffNum(d1, d2)
             * (Len(d1) + Len(d2) - 2)

C1_Witness ==
  /\ pc = "done" /\ Len(d1) = 2 /\ Len(d2) = 3
  /\ ret.kind = "return" /\ ret.val.sg = 0 - 1 /\ SIsFinite(ret.val)

\* C2: the s that cohend divides by is the square root of
\* ((n1 - 1) * var1 + (n2 - 1) * var2) / (n1 + n2 - 2), where var1 and var2 are
\* the sums of squared deviations from the mean divided by n - 1.
C2_PooledStdBessel ==
  (pc \in {"L257", "L259"} /\ Valid(d1, d2)) =>
    /\ IsFinite(s1) /\ IsFinite(s2) /\ IsFinite(s.sq) /\ s.sg >= 0
    /\ s1.n * n1 * (n1 - 1) = s1.d * NSS(d1)
    /\ s2.n * n2 * (n2 - 1) = s2.d * NSS(d2)
    /\ s.sq.n * n1 * n2 * (n1 + n2 - 2) = s.sq.d * PooledNum(d1, d2)

C2_Witness ==
  /\ pc = "L257" /\ n1 = 3 /\ n2 = 2
  /\ s1.n > 0 /\ s2.n > 0 /\ s.sg = 1

\* C3: a call with a sample of fewer than 2 observations, or with
\* n1 + n2 - 2 <= 0, fails with an InvalidInput error and returns nothing.
C3_InvalidInputError ==
  (pc = "done" /\ (Len(d1) < 2 \/ Len(d2) < 2 \/ Len(d1) + Len(d2) - 2 <= 0)) =>
    (ret.kind = "raise" /\ ret.exc = "InvalidInput")

\* C4: when both samples have at least 2 observations and the pooled standard
\* deviation is zero, the outcome is a value that is not finite (nan or an
\* infinity), and no call with a non-zero pooled standard deviation gives such
\* a value.
C4_DegenerateDistinct ==
  (pc = "done" /\ Valid(d1, d2)) =>
    /\ ret.kind = "return"
    /\ (PooledNum(d1, d2) = 0) <=> ~SIsFinite(ret.val)

C4_Witness ==
  /\ pc = "done" /\ Valid(d1, d2) /\ PooledNum(d1, d2) = 0
  /\ Sum(d1) * Len(d2) > Sum(d2) * Len(d1)
  /\ ret.val.sg = 1 /\ ~SIsFinite(ret.val)

C6_SelfIsZero ==
  (pc = "done" /\ d1 = d2 /\ Len(d1) >= 2 /\ ~Constant(d1)) =>
    ret = Returned(SZero)

C6_Witness ==
  pc = "done" /\ d1 = d2 /\ Len(d1) = 3 /\ ~Constant(d1) /\ ret = Returned(SZero)

\* C7: for two samples of the same size and the same non-zero variance,
\* cohend(B, A) is the negation of cohend(A, B).
C7_SwapNegates ==
  (pc = "done" /\ Valid(d1, d2) /\ Len(d1) = Len(d2)
     /\ NSS(d1) = NSS(d2) /\ NSS(d1) # 0) =>
    /\ ret.kind = "return"
    /\ Cohend(d2, d1) = Returned(SNeg(ret.val))

C7_Witness ==
  /\ pc = "done" /\ Len(d1) = 3 /\ Len(d2) = 3
  /\ NSS(d1) = NSS(d2) /\ NSS(d1) # 0
  /\ ret.kind = "return" /\ ret.val.sg = 1

\* C8: for every k in 1..MaxK, multiplying every observation of both samples by
\* k leaves the result of a valid call with non-zero pooled standard deviation
\* unchanged.
C8_ScaleInvariant ==
  (pc = "done" /\ Valid(d1, d2) /\ PooledNum(d1, d2) # 0) =>
    \A k \in 1..MaxK : Cohend(Scale(k, d1), Scale(k, d2)) = ret

C8_Witness ==
  /\ pc = "done" /\ Valid(d1, d2) /\ PooledNum(d1, d2) # 0
  /\ Len(d1) # Len(d2) /\ ret.val.sg # 0 /\ MaxK >= 2

\* C9: a later call with the samples of a remembered call gives the outcome the
\* remembered call gave, whatever was called in between.
C9_Deterministic ==
  log.again.kind # "unset" => log.again = log.ret

C9_Witness ==
  /\ log.between /\ log.again.kind = "return"
  /\ SIsFinite(log.again.val) /\ log.again.val.sg # 0
  /\ ret.kind = "return" /\ SIsNaN(ret.val)

\* C10: no step of a call changes either input sample or the caller's result
\* before the call ends, and when the call ends nothing of its frame is left.
C10_NoSideEffects ==
  [][(pc \notin {"idle", "done"}) =>
       /\ d1' = d1 /\ d2' = d2
       /\ (pc' # "done" => ret' = ret)
       /\ (pc' = "done" => \A i \in 1..7 : locals'[i] = None)]_vars

C10_Witness ==
  /\ pc = "done" /\ ret.kind = "return" /\ SIsFinite(ret.val)
  /\ Len(d1) >= 2 /\ d1[1] > d1[2]
  /\ s = None /\ u1 = None

----------------------------------------------------------------------------
SameStats(a, b) == Len(a) = Len(b) /\ Sum(a) = Sum(b) /\ SumSq(a) = SumSq(b)

Shift(c, q) == [i \in 1..Len(q) |-> q[i] + c]

OneHalf == [sg |-> 1, sq |-> Rat(1, 4)]

\* C11: when both samples have the same non-zero variance and the mean of the
\* first exceeds the mean of the second by half the standard deviation, the
\* call returns 1/2.
C11_HalfStdIsOneHalf ==
  (pc = "done" /\ Valid(d1, d2)
     /\ NSS(d1) * Len(d2) * (Len(d2) - 1) = NSS(d2) * Len(d1) * (Len(d1) - 1)
     /\ NSS(d1) > 0 /\ MeanDiffNum(d1, d2) > 0
     /\ 4 * MeanDiffNum(d1, d2) * MeanDiffNum(d1, d2) * Len(d1) * (Len(d1) - 1)
          = NSS(d1) * Len(d1) * Len(d2) * Len(d1) * Len(d2)) =>
    ret = Returned(OneHalf)

C11_Witness ==
  /\ pc = "done" /\ d1 = <<50, 60, 70>> /\ d2 = <<50, 50, 50, 70>>
  /\ ret = Returned(OneHalf)

\* C12: replacing either sample by one of the same count, mean and variance
\* (a reordering of it in particular) leaves the outcome unchanged.
C12_OnlyCountMeanVar ==
  pc = "done" =>
    \A a \in Samples \cup ScenarioInputs :
      /\ SameStats(a, d1) => Cohend(a, d2) = ret
      /\ SameStats(a, d2) => Cohend(d1, a) = ret

C12_Witness ==
  /\ pc = "done" /\ d1 = <<0, 2, 2, 2>> /\ d2 = <<70, 50, 60>>
  /\ SameStats(<<1, 1, 1, 3>>, d1) /\ SameStats(<<50, 60, 70>>, d2)
  /\ ret.kind = "return" /\ SIsFinite(ret.val) /\ ret.val.sg # 0

\* C17: for every two samples of at least 2 observations with non-zero pooled
\* standard deviation, of equal size and variance or not, cohend(B, A) is the
\* negation of cohend(A, B).
C17_SwapNegatesAlways ==
  (pc = "done" /\ Valid(d1, d2) /\ PooledNum(d1, d2) # 0) =>
    /\ ret.kind = "return"
    /\ Cohend(d2, d1) = Returned(SNeg(ret.val))

C17_Witness ==
  /\ pc = "done" /\ Len(d1) = 2 /\ Len(d2) = 3
  /\ NSS(d1) * 6 # NSS(d2) * 2 /\ NSS(d1) # 0 /\ NSS(d2) # 0
  /\ ret.kind = "return" /\ ret.val.sg = 1

C19_ShiftInvariant ==
  (pc = "done" /\ Valid(d1, d2) /\ PooledNum(d1, d2) # 0) =>
    \A c \in (0 - MaxShift)..MaxShift :
      Cohend(Shift(c, d1), Shift(c, d2)) = ret

C19_Witness ==
  /\ pc = "done" /\ Valid(d1, d2) /\ PooledNum(d1, d2) # 0
  /\ Len(d1) # Len(d2) /\ ret.val.sg # 0 /\ MaxShift >= 1

\* C13: with two calls interleaved in any way, each call returns what it
\* returns when it runs alone on its samples.
C13_ParallelCalls ==
  /\ pc = "done" => ret = Cohend(d1, d2)
  /\ other.pc = "done" => other.ret = Cohend(other.d1, other.d2)

C13_Witness ==
  /\ pc = "done" /\ other.pc = "done" /\ other.mixed
  /\ ret.kind = "return" /\ SIsFinite(ret.val) /\ ret.val.sg # 0
  /\ SIsFinite(other.ret.val) /\ other.ret.val # ret.val

----------------------------------------------------------------------------
IsPrefix(p, q) == Len(p) <= Len(q) /\ \A i \in 1..Len(p) : p[i] = q[i]

\* C14: when a run of either example has ended, the loaded model has the
\* architecture and the weights of the model that was trained and saved in
\* that run, and its evaluation score is the score of the trained model.
C14_RoundTrip ==
  kpc = "ran" =>
    /\ loaded_model.arch = model.arch
    /\ loaded_model.weights = model.weights
    /\ score.kind = "scores" /\ scores.kind = "scores"
    /\ score.acc = scores.acc

C14_Witness ==
  /\ kpc = "ran" /\ fmt = "yaml" /\ last_run.fmt = "json"
  /\ last_run.weights # model.weights
  /\ loaded_model.weights = model.weights /\ score = scores

\* C15: in every run the calls after training are made in the order
\* architecture written, weights saved, architecture read, model rebuilt,
\* weights loaded, loaded model compiled, loaded model evaluated; evaluate is
\* only reached with the loaded model compiled, and it does not fail.
C15_CompiledBeforeUse ==
  /\ IsPrefix(events, StepOrder)
  /\ kpc = "K124" => loaded_model.compiled # "none"
  /\ kpc = "ran" => (events = StepOrder /\ score.kind = "scores")

C15_Witness ==
  kpc = "ran" /\ events = StepOrder /\ loaded_model.compiled = "rmsprop"

\* C20: both examples keep their weights in model.h5; from save_weights to the
\* end of a run the file holds the weights trained in that run, whatever an
\* earlier run of either example left there, and load_weights loads them.
C20_WeightsOfLatestRun ==
  /\ kpc \in {"K114", "K117", "K119", "K123", "K124", "ran"} =>
       fs["model.h5"] = [kind |-> "weights", w |-> model.weights]
  /\ kpc \in {"K123", "K124", "ran"} =>
       loaded_model.weights = model.weights

C20_Witness ==
  /\ kpc = "ran" /\ last_run.fmt \in {"json", "yaml"} /\ last_run.fmt # fmt
  /\ last_run.weights # model.weights
  /\ fs["model.h5"].w = model.weights /\ loaded_model.weights = model.weights

----------------------------------------------------------------------------
One == FromInt(1)

Zero == FromInt(0)

IsPermutationMatrix(m) ==
  /\ \A i, j \in 1..Len(m) : m[i][j] \in {Zero, One}
  /\ \A i \in 1..Len(m) : Cardinality({j \in 1..Len(m) : m[i][j] = One}) = 1
  /\ \A j \in 1..Len(m) : Cardinality({i \in 1..Len(m) : m[i][j] = One}) = 1

\* C16: for the matrix A decomposed by lu, P is a permutation matrix, L is
\* lower triangular (with unit diagonal), U is upper triangular, and the
\* product P.L.U is A.
C16_LUReconstructs ==
  /\ lpc \in {"M160", "shown"} =>
       /\ IsPermutationMatrix(P)
       /\ \A i, j \in 1..Len(A) : j > i => L[i][j] = Zero
       /\ \A i \in 1..Len(A) : L[i][i] = One
       /\ \A i, j \in 1..Len(A) : j < i => U[i][j] = Zero
       /\ \A i, j \in 1..Len(A) : IsFinite(L[i][j]) /\ IsFinite(U[i][j])
  /\ lpc = "shown" => B = ToRatMatrix(A)

C16_Witness ==
  /\ lpc = "shown" /\ A = <<<<1, 2, 3>>, <<4, 5, 6>>, <<7, 8, 9>>>>
  /\ P = ToRatMatrix(<<<<0, 1, 0>>, <<0, 0, 1>>, <<1, 0, 0>>>>)
  /\ L[2][1] = Rat(1, 7) /\ L[3][1] = Rat(4, 7) /\ L[3][2] = Rat(1, 2)
  /\ U[1] = ToRatMatrix(A)[3] /\ U[2][2] = Rat(6, 7) /\ U[2][3] = Rat(12, 7)
  /\ B = ToRatMatrix(A)

====
